---- MODULE Spec2Model ----
(***************************************************************************)
(* A model of src/src/index.ts: typed routes built from literal segments   *)
(* and named parameters, their flat filler `fillAll`, their curried filler *)
(* `filled`, and the TypedRouteBuilder wrapper.                            *)
(*                                                                         *)
(* Route objects live on a heap (a sequence; an address is an index), and  *)
(* the closures the code creates are records naming the lambda and the     *)
(* variables it captured.  A closure that captured `route` holds the       *)
(* ADDRESS of that route object, as in JavaScript, and reads its fields    *)
(* when it is called.                                                      *)
(***************************************************************************)
EXTENDS Naturals, Sequences, FiniteSets

VARIABLES
    heap,       \* the route objects allocated so far (address = index)
    route,      \* the caller's current route (an address), 0 before createRoute()
    ops,        \* history: the append operations that produced heap[route]
    call,       \* the last call made on heap[route]: fillAll(...) or the filled chain
    builders,   \* the TypedRouteBuilder instances allocated so far (address = index)
    bhist,      \* history, per builder: the route it adopted and its chaining calls
    ret,        \* the last chaining call: the builder it was made on and what it returned
    built       \* what the last build() returned, with what it did when returned

vars == <<heap, route, ops, call, builders, bhist, ret, built>>

---------------------------------------------------------------------------
(* Bounds of the model and the inputs the operations are tried with.       *)

MaxOps == 4          \* append operations on the caller's route
MaxBuilderOps == 3   \* chaining calls on the builder
MaxBaseOps == 1      \* append operations on a route before a builder adopts it

Segments == {"x", "y"}
\* Parameter names: a route declares its parameters under distinct names, the
\* k-th declared under the k-th of these.
Names == <<"a", "b", "c", "d", "e", "f", "g", "h">>
Values == {"1", "2"}

---------------------------------------------------------------------------
(* JavaScript values.                                                      *)

undefined == [type |-> "undefined"]
Str(s) == [type |-> "string", s |-> s]
\* The exception raised by calling a value that is not a function.
TypeError == [type |-> "TypeError"]

Args == {Str(v) : v \in Values} \cup {undefined}

\* The lambdas of the source; a closure is [type, code, <captured variables>].
FillAllOfCreateRoute == [type |-> "function", code |-> "createRoute.fillAll"]
FillAllOfAddSegment(route_, seg) ==
    [type |-> "function", code |-> "addSegment.fillAll", route |-> route_, segment |-> seg]
FilledOfAddSegment(route_, seg) ==
    [type |-> "function", code |-> "addSegment.filled", route |-> route_, segment |-> seg]
FillAllOfAddParameter(route_) ==
    [type |-> "function", code |-> "addParameter.fillAll", route |-> route_]
FillAllOfAddOptionalParameter(route_) ==
    [type |-> "function", code |-> "addOptionalParameter.fillAll", route |-> route_]
CurryOverString(routeArgs) ==
    [type |-> "function", code |-> "makeFilledCurry.string", routeArgs |-> routeArgs]
CurryOverFunction(routeArgs) ==
    [type |-> "function", code |-> "makeFilledCurry.function", routeArgs |-> routeArgs]

\* String(f) of a function: the source text of its lambda, which is no path
\* (the text is the compiler's output; the model keeps which lambda it is).
SourceText(f) == "function " \o f.code

\* What a template literal `${v}` renders.
ToString(v) ==
    CASE v.type = "string" -> v.s
      [] v.type = "undefined" -> "undefined"
      [] v.type = "function" -> SourceText(v)

\* The i-th actual argument of a call; a missing argument is undefined.
Arg(args, i) == IF i <= Len(args) THEN args[i] ELSE undefined
\* A rest parameter after one named parameter.
Rest(args) == IF args = <<>> THEN <<>> ELSE Tail(args)

makeFilledCurry(routeArgs) ==
    IF routeArgs.type = "string"
    THEN CurryOverString(routeArgs)
    ELSE CurryOverFunction(routeArgs)

(* f(...args) on heap h: a string, a function, or TypeError when f is not   *)
(* a function or a call made inside it throws.                             *)
RECURSIVE Call(_, _, _)
Call(h, f, args) ==
    IF f.type # "function" THEN TypeError
    ELSE CASE f.code = "createRoute.fillAll" -> Str("")
      [] f.code = "addSegment.fillAll" ->
            LET prev == Call(h, h[f.route].fillAll, args)
            IN  IF prev = TypeError THEN TypeError
                ELSE Str(ToString(prev) \o "/" \o f.segment)
      [] f.code = "addParameter.fillAll" ->
            LET prev == Call(h, h[f.route].fillAll, Rest(args))
            IN  IF prev = TypeError THEN TypeError
                ELSE Str(ToString(prev) \o "/" \o ToString(Arg(args, 1)))
      [] f.code = "addOptionalParameter.fillAll" ->
            LET prev == Call(h, h[f.route].fillAll, Rest(args))
            IN  IF prev = TypeError THEN TypeError
                ELSE IF Arg(args, 1) # undefined
                     THEN Str(ToString(prev) \o "/" \o ToString(Arg(args, 1)))
                     ELSE prev
      [] f.code = "addSegment.filled" ->
            LET inner == Call(h, h[f.route].filled, <<Arg(args, 1)>>)
            IN  IF inner = TypeError THEN TypeError
                ELSE Str(ToString(inner) \o "/" \o f.segment)
      [] f.code = "makeFilledCurry.string" ->
            IF Arg(args, 1) # undefined
            THEN Str(ToString(f.routeArgs) \o "/" \o ToString(Arg(args, 1)))
            ELSE f.routeArgs
      [] f.code = "makeFilledCurry.function" ->
            IF Arg(args, 1) # undefined
            THEN LET nestedArgs == Call(h, f.routeArgs, <<Arg(args, 1)>>)
                 IN  IF nestedArgs = TypeError THEN TypeError
                     ELSE makeFilledCurry(nestedArgs)
            ELSE f.routeArgs

---------------------------------------------------------------------------
(* The route operations.  Each takes the heap and returns the heap with    *)
(* the new route object allocated at its end; the address of the returned  *)
(* route is the length of the returned heap.                               *)

createRoute(h) ==
    Append(h, [template |-> "",
               parameters |-> undefined,
               fillAll |-> FillAllOfCreateRoute,
               filled |-> Str("")])

\* addSegment writing the new template into the route it was given as well.
addSegmentInPlace(seg, h, r) ==
    Append([h EXCEPT ![r].template = h[r].template \o "/" \o seg],
           [template |-> h[r].template \o "/" \o seg,
            parameters |-> undefined,
            fillAll |-> FillAllOfAddSegment(r, seg),
            filled |-> IF h[r].filled.type = "string"
                       THEN Str(h[r].filled.s \o "/" \o seg)
                       ELSE FilledOfAddSegment(r, seg)])

addSegment(seg, h, r) ==
    Append(h, [template |-> h[r].template \o "/" \o seg,
               parameters |-> undefined,
               fillAll |-> FillAllOfAddSegment(r, seg),
               filled |-> IF h[r].filled.type = "string"
                          THEN Str(h[r].filled.s \o "/" \o seg)
                          ELSE FilledOfAddSegment(r, seg)])

\* addParameter whose fillAll omits an undefined value, as the optional one does.
addParameterOmitsUndefined(name, h, r) ==
    Append(h, [template |-> h[r].template \o "/:" \o name,
               parameters |-> undefined,
               fillAll |-> FillAllOfAddOptionalParameter(r),
               filled |-> makeFilledCurry(h[r].filled)])

addParameter(name, h, r) ==
    Append(h, [template |-> h[r].template \o "/:" \o name,
               parameters |-> undefined,
               fillAll |-> FillAllOfAddParameter(r),
               filled |-> makeFilledCurry(h[r].filled)])

\* addOptionalParameter whose fillAll never omits, as the required one.
addOptionalParameterNeverOmits(name, h, r) ==
    Append(h, [template |-> h[r].template \o "/:" \o name \o "?",
               parameters |-> undefined,
               fillAll |-> FillAllOfAddParameter(r),
               filled |-> makeFilledCurry(h[r].filled)])

\* addOptionalParameter without the "?" of the template.
addOptionalParameterNoMark(name, h, r) ==
    Append(h, [template |-> h[r].template \o "/:" \o name,
               parameters |-> undefined,
               fillAll |-> FillAllOfAddOptionalParameter(r),
               filled |-> makeFilledCurry(h[r].filled)])

addOptionalParameter(name, h, r) ==
    Append(h, [template |-> h[r].template \o "/:" \o name \o "?",
               parameters |-> undefined,
               fillAll |-> FillAllOfAddOptionalParameter(r),
               filled |-> makeFilledCurry(h[r].filled)])

---------------------------------------------------------------------------
(* TypedRouteBuilder.  An instance is an object with the one field         *)
(* _typedRoute (the address of the held route).  A method takes the route  *)
(* heap, the builder heap and `this`, and returns both heaps and the value *)
(* the method returns.                                                     *)

\* new TypedRouteBuilder(typedRoute): typedRoute = 0 is "no argument".
constructor(h, bs, typedRoute) ==
    LET h2 == IF typedRoute # 0 THEN h ELSE createRoute(h)
        held == IF typedRoute # 0 THEN typedRoute ELSE Len(h2)
    IN  [heap |-> h2,
         builders |-> Append(bs, [_typedRoute |-> held]),
         value |-> Len(bs) + 1]

\* segment returning a fresh builder and leaving `this` as it was.
segmentFreshBuilder(seg, h, bs, this) ==
    LET h2 == addSegment(seg, h, bs[this]._typedRoute)
    IN  [heap |-> h2,
         builders |-> Append(bs, [_typedRoute |-> Len(h2)]),
         value |-> Len(bs) + 1]

segment(seg, h, bs, this) ==
    LET h2 == addSegment(seg, h, bs[this]._typedRoute)
    IN  [heap |-> h2,
         builders |-> [bs EXCEPT ![this]._typedRoute = Len(h2)],
         value |-> this]

parameter(name, h, bs, this) ==
    LET h2 == addParameter(name, h, bs[this]._typedRoute)
    IN  [heap |-> h2,
         builders |-> [bs EXCEPT ![this]._typedRoute = Len(h2)],
         value |-> this]

\* optionalParameter applying addParameter.
optionalParameterAsRequired(name, h, bs, this) ==
    LET h2 == addParameter(name, h, bs[this]._typedRoute)
    IN  [heap |-> h2,
         builders |-> [bs EXCEPT ![this]._typedRoute = Len(h2)],
         value |-> this]

optionalParameter(name, h, bs, this) ==
    LET h2 == addOptionalParameter(name, h, bs[this]._typedRoute)
    IN  [heap |-> h2,
         builders |-> [bs EXCEPT ![this]._typedRoute = Len(h2)],
         value |-> this]

build(bs, this) == bs[this]._typedRoute

---------------------------------------------------------------------------
(* The caller: what it has applied, and what the static types let it call. *)

SegmentOp(s) == [op |-> "addSegment", arg |-> s]
ParameterOp(n) == [op |-> "addParameter", arg |-> n]
OptionalOp(n) == [op |-> "addOptionalParameter", arg |-> n]

IsParam(o) == o.op \in {"addParameter", "addOptionalParameter"}

\* The parameter operations among os, in declaration order.
ParamsOf(os) == SelectSeq(os, IsParam)

\* TFillAllParams has one entry per parameter; FilledExpander nests one
\* function type per parameter.
Arity(os) == Len(ParamsOf(os))

\* The name a caller gives the next parameter of a route built by os.
NextNames(os) == {Names[Arity(os) + 1]}

NoCall == [fn |-> "none", args |-> <<>>, result |-> undefined]
NoBuilt == [route |-> 0]
NoRet == [this |-> 0, value |-> 0]

\* All argument tuples of length n.
RECURSIVE Tuples(_)
Tuples(n) ==
    IF n = 0 THEN {<<>>}
    ELSE {<<a>> \o t : a \in Args, t \in Tuples(n - 1)}

Init ==
    /\ heap = <<>>
    /\ route = 0
    /\ ops = <<>>
    /\ call = NoCall
    /\ builders = <<>>
    /\ bhist = <<>>
    /\ ret = NoRet
    /\ built = NoBuilt

CreateRoute ==
    /\ route = 0
    /\ heap' = createRoute(heap)
    /\ route' = Len(heap')
    /\ ops' = <<>>
    /\ call' = NoCall
    /\ UNCHANGED <<builders, bhist, ret, built>>

AddSegment(seg) ==
    /\ route # 0
    /\ Len(ops) < MaxOps
    /\ heap' = addSegment(seg, heap, route)
    /\ route' = Len(heap')
    /\ ops' = Append(ops, SegmentOp(seg))
    /\ call' = NoCall
    /\ UNCHANGED <<builders, bhist, ret, built>>

AddParameter(name) ==
    /\ route # 0
    /\ Len(ops) < MaxOps
    /\ heap' = addParameter(name, heap, route)
    /\ route' = Len(heap')
    /\ ops' = Append(ops, ParameterOp(name))
    /\ call' = NoCall
    /\ UNCHANGED <<builders, bhist, ret, built>>

AddOptionalParameter(name) ==
    /\ route # 0
    /\ Len(ops) < MaxOps
    /\ heap' = addOptionalParameter(name, heap, route)
    /\ route' = Len(heap')
    /\ ops' = Append(ops, OptionalOp(name))
    /\ call' = NoCall
    /\ UNCHANGED <<builders, bhist, ret, built>>

\* route.fillAll(...args), with as many arguments as TFillAllParams has; the
\* model keeps one fillAll call per route value it reaches.
CallFillAll(args) ==
    /\ route # 0
    /\ call = NoCall
    /\ call' = [fn |-> "fillAll", args |-> args,
                result |-> Call(heap, heap[route].fillAll, args)]
    /\ UNCHANGED <<heap, route, ops, builders, bhist, ret, built>>

\* The next call of the chain route.filled(a1)(a2)...: made while the static
\* type of the value in hand is still a function type.
CallFilled(arg) ==
    /\ route # 0
    /\ LET sofar == IF call.fn = "filled" THEN call.args ELSE <<>>
           inhand == IF call.fn = "filled" THEN call.result ELSE heap[route].filled
       IN  /\ Len(sofar) < Arity(ops)
           /\ inhand # TypeError
           /\ call' = [fn |-> "filled", args |-> Append(sofar, arg),
                       result |-> Call(heap, inhand, <<arg>>)]
    /\ UNCHANGED <<heap, route, ops, builders, bhist, ret, built>>

Next ==
    \/ CreateRoute
    \/ \E seg \in Segments : AddSegment(seg)
    \/ \E name \in NextNames(ops) : AddParameter(name)
    \/ \E name \in NextNames(ops) : AddOptionalParameter(name)
    \/ \E args \in Tuples(Arity(ops)) : CallFillAll(args)
    \/ \E arg \in Args : CallFilled(arg)

Spec == Init /\ [][Next]_vars

---------------------------------------------------------------------------
(* The builder's callers.                                                  *)

\* The operations behind builder b's held route, from createRoute() on.
OpsOfBuilder(b) == bhist[b].r0ops \o bhist[b].calls

TotalCalls ==
    LET RECURSIVE Sum(_)
        Sum(b) == IF b = 0 THEN 0 ELSE Len(bhist[b].calls) + Sum(b - 1)
    IN  Sum(Len(bhist))

\* What a caller can see of the route at address a of heap h, whose static
\* type has n parameters: the template, every fillAll result, and every
\* result along the filled chain (of a function, only that it is one).
RECURSIVE Chain(_, _, _)
Chain(h, v, args) ==
    IF args = <<>> THEN v
    ELSE Chain(h, Call(h, v, <<Head(args)>>), Tail(args))

Show(v) == IF v.type = "function" THEN [type |-> "function"] ELSE v

TuplesUpTo(n) == UNION {Tuples(k) : k \in 0..n}

Observe(h, a, n) ==
    [template |-> h[a].template,
     fillAll |-> [args \in Tuples(n) |-> Call(h, h[a].fillAll, args)],
     filled |-> [args \in TuplesUpTo(n) |-> Show(Chain(h, h[a].filled, args))]]

\* A route on which a builder can be constructed: the caller's, once it has
\* one, with a few operations applied.
BaseCreateRoute == builders = <<>> /\ CreateRoute
BaseAddSegment(seg) == builders = <<>> /\ Len(ops) < MaxBaseOps /\ AddSegment(seg)
BaseAddParameter(name) == builders = <<>> /\ Len(ops) < MaxBaseOps /\ AddParameter(name)
BaseAddOptionalParameter(name) ==
    builders = <<>> /\ Len(ops) < MaxBaseOps /\ AddOptionalParameter(name)

\* new TypedRouteBuilder() or new TypedRouteBuilder(route); the model follows
\* one builder instance.
NewBuilder(typedRoute) ==
    /\ builders = <<>>
    /\ LET r == constructor(heap, builders, typedRoute)
       IN  /\ heap' = r.heap
           /\ builders' = r.builders
           /\ bhist' = Append(bhist, [r0 |-> typedRoute,
                                      r0ops |-> IF typedRoute # 0 THEN ops ELSE <<>>,
                                      calls |-> <<>>])
    /\ UNCHANGED <<route, ops, call, ret, built>>

Chained(this, r, o) ==
    /\ heap' = r.heap
    /\ builders' = r.builders
    /\ ret' = [this |-> this, value |-> r.value]
    /\ bhist' = [bhist EXCEPT ![this].calls = Append(@, o)]
    /\ UNCHANGED <<route, ops, call, built>>

Segment(this, seg) ==
    /\ TotalCalls < MaxBuilderOps
    /\ Chained(this, segment(seg, heap, builders, this), SegmentOp(seg))

Parameter(this, name) ==
    /\ TotalCalls < MaxBuilderOps
    /\ Chained(this, parameter(name, heap, builders, this), ParameterOp(name))

OptionalParameter(this, name) ==
    /\ TotalCalls < MaxBuilderOps
    /\ Chained(this, optionalParameter(name, heap, builders, this), OptionalOp(name))

\* build(), keeping with the returned route what it did when it was returned.
Build(this) ==
    /\ LET r == build(builders, this)
       IN  built' = [route |-> r, by |-> this,
                     r0 |-> bhist[this].r0, calls |-> bhist[this].calls,
                     ops |-> OpsOfBuilder(this),
                     obs |-> Observe(heap, r, Arity(OpsOfBuilder(this)))]
    /\ UNCHANGED <<heap, route, ops, call, builders, bhist, ret>>

NextBuilder ==
    \/ BaseCreateRoute
    \/ \E seg \in Segments : BaseAddSegment(seg)
    \/ \E name \in NextNames(ops) : BaseAddParameter(name)
    \/ \E name \in NextNames(ops) : BaseAddOptionalParameter(name)
    \/ \E typedRoute \in {0, route} : NewBuilder(typedRoute)
    \/ \E this \in 1..Len(builders), seg \in Segments : Segment(this, seg)
    \/ \E this \in 1..Len(builders) : \E name \in NextNames(OpsOfBuilder(this)) : Parameter(this, name)
    \/ \E this \in 1..Len(builders) : \E name \in NextNames(OpsOfBuilder(this)) : OptionalParameter(this, name)
    \/ \E this \in 1..Len(builders) : Build(this)

SpecBuilder == Init /\ [][NextBuilder]_vars

---------------------------------------------------------------------------
(* What the claims compare the code with: the path a sequence of           *)
(* operations describes, computed from the operations alone.               *)

Piece(o) ==
    CASE o.op = "addSegment" -> "/" \o o.arg
      [] o.op = "addParameter" -> "/:" \o o.arg
      [] o.op = "addOptionalParameter" -> "/:" \o o.arg \o "?"

RECURSIVE Pieces(_)
Pieces(os) == IF os = <<>> THEN "" ELSE Piece(Head(os)) \o Pieces(Tail(os))

\* The template of os with the i-th declared parameter's placeholder replaced
\* by vals[i]; a placeholder whose value is undefined is dropped with its "/"
\* when omit[its kind] and rendered "/undefined" otherwise.
RECURSIVE Fill(_, _, _)
Fill(os, vals, omit) ==
    IF os = <<>> THEN ""
    ELSE LET o == Head(os)
         IN  IF ~IsParam(o) THEN Piece(o) \o Fill(Tail(os), vals, omit)
             ELSE (IF Head(vals) = undefined
                   THEN (IF o.op \in omit THEN "" ELSE "/undefined")
                   ELSE "/" \o Head(vals).s)
                  \o Fill(Tail(os), Tail(vals), omit)

Path(os, vals) == Fill(os, vals, {"addParameter", "addOptionalParameter"})

Reverse(s) == [i \in 1..Len(s) |-> s[Len(s) + 1 - i]]

AllDefined(vals) == \A i \in 1..Len(vals) : vals[i] # undefined

\* vals are values the static types allow for the first Len(vals) parameters
\* of os: undefined only for an optional parameter.
WellTyped(os, vals) ==
    /\ Len(vals) <= Arity(os)
    /\ \A i \in 1..Len(vals) :
          vals[i] = undefined => ParamsOf(os)[i].op = "addOptionalParameter"

\* The operations that produced the route at address a of the caller's chain
\* (address 1 is createRoute()'s, address k + 1 the k-th operation's).
OpsAt(a) == SubSeq(ops, 1, a - 1)

\* What the standalone operations os, applied in order to route r of heap h,
\* give: the heap, and the address of the route they return.
RECURSIVE Apply(_, _, _)
Apply(h, r, os) ==
    IF os = <<>> THEN [heap |-> h, route |-> r]
    ELSE LET o == Head(os)
             h2 == CASE o.op = "addSegment" -> addSegment(o.arg, h, r)
                     [] o.op = "addParameter" -> addParameter(o.arg, h, r)
                     [] o.op = "addOptionalParameter" -> addOptionalParameter(o.arg, h, r)
         IN  Apply(h2, Len(h2), Tail(os))

\* The same from route r0, or from createRoute() when r0 = 0.
Standalone(h, r0, os) ==
    IF r0 = 0 THEN Apply(createRoute(h), Len(h) + 1, os) ELSE Apply(h, r0, os)

AsOptional(o) == IF o.op = "addParameter" THEN OptionalOp(o.arg) ELSE o
AllOptional(os) == [i \in 1..Len(os) |-> AsOptional(os[i])]

---------------------------------------------------------------------------
(* The claims.  Those about the caller's route are stated of Spec,         *)
(* those about the builder under SpecBuilder.                              *)

\* C1: the filled chain of a route, called once per parameter with defined
\* values in declaration order, ends in the template with every placeholder
\* replaced by its value; with no parameter, filled is the template itself.
C1_FilledFillsTemplate ==
    route # 0 =>
        /\ Arity(ops) = 0 => heap[route].filled = Str(heap[route].template)
        /\ (call.fn = "filled" /\ Len(call.args) = Arity(ops) /\ AllDefined(call.args))
              => call.result = Str(Path(ops, call.args))

\* C2: fillAll, given the values in reverse declaration order, returns the
\* template with every placeholder replaced by its value and the component of
\* each optional parameter given as undefined omitted; with no parameter it
\* returns the template.
C2_FillAllFillsTemplate ==
    (call.fn = "fillAll" /\ WellTyped(ops, Reverse(call.args))) =>
        /\ call.result = Str(Path(ops, Reverse(call.args)))
        /\ Arity(ops) = 0 => call.result = Str(heap[route].template)

C2_Witness ==
    /\ call.fn = "fillAll"
    /\ WellTyped(ops, Reverse(call.args))
    /\ Arity(ops) >= 3
    /\ \E i, j \in 1..Len(call.args) :
          call.args[i] = undefined /\ call.args[j] # undefined /\ i < j
    /\ \E i \in 1..Len(ops) : ops[i].op = "addSegment"
    /\ call.result = Str(Path(ops, Reverse(call.args)))

\* C3: filled has one curried step per parameter added: called with defined
\* values, each call before the last returns a function and the last returns
\* a string; with no parameter filled is a string.
C3_OneStepPerParameter ==
    route # 0 =>
        /\ Arity(ops) = 0 => heap[route].filled.type = "string"
        /\ Arity(ops) > 0 => heap[route].filled.type = "function"
        /\ (call.fn = "filled" /\ AllDefined(call.args)) =>
              /\ Len(call.args) < Arity(ops) => call.result.type = "function"
              /\ Len(call.args) = Arity(ops) => call.result.type = "string"

\* C4: in the filled chain called in declaration order, undefined at an
\* optional parameter's step still consumes that step, and the final string is
\* the template without that parameter's component, every other value and
\* every segment at its own position.
C4_UndefinedSkipsOptional ==
    (/\ call.fn = "filled"
     /\ WellTyped(ops, call.args)
     /\ \E i \in 1..Len(call.args) : call.args[i] = undefined) =>
        /\ Len(call.args) < Arity(ops) => call.result.type = "function"
        /\ Len(call.args) = Arity(ops) => call.result = Str(Path(ops, call.args))

\* C5: the template of every route of the chain is the concatenation, in
\* order, of one piece per operation applied ("" for none): each operation
\* extends the previous template by its own piece.
C5_TemplateIsPieces ==
    /\ \A a \in 1..Len(heap) : heap[a].template = Pieces(OpsAt(a))
    /\ \A a \in 2..Len(heap) :
          heap[a].template = heap[a - 1].template \o Piece(ops[a - 1])

C5_Witness ==
    /\ Len(ops) >= 4
    /\ \E i, j, k \in 1..Len(ops) :
          /\ ops[i].op = "addSegment"
          /\ ops[j].op = "addParameter"
          /\ ops[k].op = "addOptionalParameter"
    /\ heap[route].template = Pieces(ops)

\* C6: no step (an append operation, or a call of the new route's fillAll or
\* filled) changes a route that already exists: the object, its template,
\* the results of its fillAll and the results along its filled chain.
C6_RoutesAreNeverMutated ==
    [][\/ heap' = heap
       \/ \A a \in 1..Len(heap) :
             /\ Len(heap') >= a
             /\ heap'[a] = heap[a]
             /\ Observe(heap', a, Arity(OpsAt(a))) = Observe(heap, a, Arity(OpsAt(a)))]_vars

C6_Witness ==
    /\ Len(heap) >= 4
    /\ heap[2].filled.type = "function"
    /\ call.fn = "filled"
    /\ Len(call.args) = Arity(ops)

\* C7: the route build() returns is observably the route the standalone
\* operations, applied in the order of the chaining calls to the route the
\* builder was constructed with (createRoute() when none), produce.
C7_BuilderEqualsStandalone ==
    built.route # 0 =>
        LET s == Standalone(heap, built.r0, built.calls)
        IN  Observe(s.heap, s.route, Arity(built.ops)) = built.obs

C7_Witness ==
    /\ built.route # 0
    /\ built.r0 # 0
    /\ Len(built.ops) > Len(built.calls)
    /\ Len(built.calls) >= 2
    /\ \E i, j \in 1..Len(built.calls) :
          built.calls[i].op = "addSegment" /\ built.calls[j].op = "addParameter"

\* C8: on well-typed use nothing throws: fillAll with its arguments and each
\* call of the filled chain complete, and every result the static type
\* declares a function is one.
C8_NoRuntimeError ==
    (call.fn \in {"fillAll", "filled"}
       /\ WellTyped(ops, IF call.fn = "fillAll" THEN Reverse(call.args) ELSE call.args)) =>
        /\ call.result # TypeError
        /\ (call.fn = "filled" /\ Len(call.args) < Arity(ops))
              => call.result.type = "function"

\* C9: a chaining call returns the builder it was called on; a route an
\* earlier build() returned keeps its behaviour after later chaining calls;
\* and the builder's held route reflects every chaining call made so far.
C9_BuilderFrame ==
    /\ ret # NoRet => ret.value = ret.this
    /\ built.route # 0 =>
          Observe(heap, built.route, Arity(built.ops)) = built.obs
    /\ \A b \in 1..Len(builders) :
          heap[build(builders, b)].template = Pieces(OpsOfBuilder(b))

C9_Witness ==
    /\ built.route # 0
    /\ ret # NoRet
    /\ Len(bhist[built.by].calls) >= Len(built.calls) + 2
    /\ build(builders, built.by) # built.route
    /\ Arity(built.ops) >= 1

\* C10: undefined given for a required parameter is not rejected: fillAll
\* renders that position "/undefined" (and omits only optional ones), while
\* the filled chain gives what it gives when that parameter is optional.
C10_UndefinedForRequired ==
    /\ call.fn = "fillAll" =>
          call.result = Str(Fill(ops, Reverse(call.args), {"addOptionalParameter"}))
    /\ call.fn = "filled" =>
          LET o == Standalone(<<>>, 0, AllOptional(ops))
          IN  call.result = Chain(o.heap, o.heap[o.route].filled, call.args)
    /\ \A a \in 2..Len(heap) :
          ops[a - 1].op = "addParameter" =>
              Call(heap, heap[a].filled, <<undefined>>) = heap[a - 1].filled

C10_Witness ==
    /\ call.fn = "fillAll"
    /\ Arity(ops) >= 2
    /\ \E i \in 1..Len(call.args) :
          /\ Reverse(call.args)[i] = undefined
          /\ ParamsOf(ops)[i].op = "addParameter"
    /\ \E i \in 1..Len(call.args) : call.args[i] # undefined

====
